---- MODULE Spec2Model ----
(***************************************************************************)
(* A model of the channel client in examples/django_demo/static/socket.js: *)
(* the classes Timer, Push, Channel and Socket (lines 350-596) and the     *)
(* WebSocket transports a Socket creates.                                  *)
(*                                                                         *)
(* JavaScript runs one handler at a time, so every action below is one     *)
(* handler run to its end: an application call, a transport event (open,   *)
(* message, error, close) or a timer expiry, with every listener it runs.  *)
(* A transport that fails fires two events in one task, error and then     *)
(* close: between the two handlers the platform runs the reactions of the  *)
(* promise the error handler rejected, so the application may act there,   *)
(* and no other task may.  Time is abstract: an armed timer may fire at    *)
(* any moment, and the delay it was armed with is recorded beside it.      *)
(*                                                                         *)
(* JavaScript values: a JSON object is a record holding exactly the keys   *)
(* that are present; reading a key that is absent yields "undefined".      *)
(* Leaf values (payloads, statuses, promise values) are strings; null is   *)
(* written "null" and undefined "undefined".                               *)
(***************************************************************************)
EXTENDS Integers, Sequences, FiniteSets, TLC

\* ------------------------------------------------------------------ bounds

\* WebSocket objects one Socket creates (connect() calls) in a run.
MaxSockets == 3
\* Largest value refCounter takes: Pushes get the refs 2..MaxRef.
MaxRef == 3
\* Channel objects created through Socket.channel().
MaxChannels == 2
\* Listeners the application has registered at one time, with Channel.on on
\* all Channels together, with Socket.on on all events together, and with
\* Push.on on all Pushes together.
MaxListeners == 3
\* Calls of send() on one Push the application holds, and calls of
\* Socket.send the application makes itself.
MaxSends == 2
\* Largest number of runs of one subscriber of send() after which the
\* application still calls dispatch() with its status.
MaxRuns == 2

\* --------------------------------------------------------------- constants

DEFAULT_INTERVALS == <<10, 50, 100, 150, 200, 250, 500, 1000, 2000, 5000, 10000>>

\* The delay nextInterval() falls back to when intervals[retry] is falsy.
FallbackInterval == 10000

\* The reconnectIntervals option a Socket may be constructed with.
IntervalChoices == {DEFAULT_INTERVALS, <<20>>}

\* The same, with a sequence whose last interval is longer than the delay
\* nextInterval() falls back to.
BackoffChoices == IntervalChoices \cup {<<5000, 20000>>}

\* The same, with a sequence whose first interval is 0: reconnect at once.
ZeroFirstChoices == IntervalChoices \cup {<<0, 20>>}

ChannelEvents == [JOIN |-> "__join__", Leave |-> "__leave__", Reply |-> "__reply__"]

\* The keys of Socket._subscribers: the events Socket.on and Socket.off accept.
SocketEvents == {"open", "message", "error", "close"}

\* A name every JavaScript object inherits from Object.prototype: the in
\* operator finds it in Socket._subscribers, and its value is a function.
InheritedKeys == {"toString"}

\* The event names an application may pass to Socket.on and Socket.off.
SocketEventNames == SocketEvents \cup InheritedKeys \cup {"reconnect"}

\* The three subscribers the constructor registers, by event.
LibrarySubscribers ==
    [open |-> <<"onOpen">>, message |-> <<"onMessage">>, error |-> <<>>,
     close |-> <<"onClose">>]

\* The functions an application registers as listeners; those of
\* ThrowingListeners throw when they are called.
Listeners == {"f", "g"}
ThrowingListeners == {"boom"}

Topics == {"room:lobby", "room:other"}
AppEvents == {"msg"}
\* The events an application listens to on a Channel.
ListenEvents == AppEvents \cup {"typing"}
Payloads == {"p1"}
\* The statuses a reply frame may carry: the two of the protocol, the name
\* of the Push's third subscriber list, and one that names no list.
Statuses == {"ok", "error", "timeout", "bogus"}

\* The value read from a key that is absent, as an object-typed value.
Undefined == [undefined |-> TRUE]

IsObject(v) == "undefined" \notin DOMAIN v

\* o[k] for a leaf key of a JSON object: "undefined" when the key is absent.
Field(o, k) == IF k \in DOMAIN o THEN o[k] ELSE "undefined"

\* o[k] for an object-valued key of a JSON object.
ObjField(o, k) == IF k \in DOMAIN o THEN o[k] ELSE Undefined

\* A reply-event name that does not depend on the ref.
makeReplyEventNameSameForAll(ref) == "channel_reply_"

makeReplyEventName(ref) == "channel_reply_" \o ToString(ref)

TimedOutMessage(ref) == "Push ref=" \o ToString(ref) \o " timed out."

\* JSON.stringify of an outbound frame: a key whose value is undefined is
\* left out; JSON.parse (the receiver's side) reads back the keys present.
JSONStringify(frame) ==
    LET keep == {k \in DOMAIN frame :
                    \/ k = "ref"
                    \/ frame[k] # "undefined"}
    IN  [k \in keep |-> frame[k]]

\* ------------------------------------------------------------------- state

VARIABLES
    intervals,       \* Timer.intervals of reconnectTimer (options.reconnectIntervals)
    ws,              \* every WebSocket the Socket created, in creation order
    socket,          \* Socket._socket: index into ws, 0 for null
    errored,         \* the transport whose error handler has returned and whose
                     \* close event is the next step of the same task, 0 for none
    closeWasClean,   \* Socket.closeWasClean ("undefined" until connect() sets it)
    reconnectTimer,  \* Timer: retry, _timer, the setTimeout calls still armed, and
                     \* (history) the delay of the timeout that expired last
    refCounter,      \* Socket.refCounter
    channels,        \* Socket.channels: topic -> list of Channel ids
    chan,            \* the Channel objects: topic and _subscribers
    pushes,          \* the Push objects by ref, with their calls of send()
    wire,            \* frames an open transport took, in order, with the transport
    handed,          \* history: every call of Socket.send, in order: the frame,
                     \* what the transport did with it, and the Push that made it
    refsIssued,      \* history: the values nextRef() returned, in order
    disconnectRequested, \* history: disconnect() called since the last application connect()
    subscribers,     \* Socket._subscribers: event -> list of functions
    calls,           \* history: the application listeners the latest task called, in order
    lastCall         \* history: the on() or off() call the latest task made, and its outcome

vars == <<intervals, ws, socket, errored, closeWasClean, reconnectTimer, refCounter,
          channels, chan, pushes, wire, handed, refsIssued, disconnectRequested,
          subscribers, calls, lastCall>>

transportVars == <<ws, socket, errored, closeWasClean, reconnectTimer, disconnectRequested>>
channelVars == <<channels, chan, pushes, refCounter, refsIssued, wire, handed>>

\* lastCall when the latest task made no on() or off() call.
NoCall == [op |-> "none", error |-> "none", removed |-> 0]

\* A new task starts when the task before it has ended: a transport that
\* fired its error event fires its close event first.
TaskTurn == errored = 0

\* The application runs in a task of its own, or, between the error event
\* and the close event of a transport, in the reactions it attached to the
\* promise of its connect() call, which the error handler has just rejected
\* (the promise of a connect() the reconnect timer made is held by no one).
AppTurn ==
    IF errored = 0
    THEN TRUE
    ELSE ws[errored].promise = "rejected" /\ ws[errored].caller = "app"

\* What a handler works on, as the task finds it: the Push and Channel
\* objects and the reconnect timer, with, as history of the task, the refs
\* whose reply listener it invoked, the application listeners it called, in
\* order, and whether an exception has ended it.
TaskStart ==
    [pushes |-> pushes, chan |-> chan, timer |-> reconnectTimer, notified |-> {},
     calls |-> <<>>, thrown |-> FALSE]

\* A task that calls neither on() nor off() and runs no application listener.
NoListenerTask ==
    /\ calls' = <<>>
    /\ lastCall' = NoCall
    /\ UNCHANGED subscribers

\* ------------------------------------------------------------------- Timer

\* Timer.nextInterval: this.intervals[this.retry] || 10000 (retry is 0-based,
\* a JavaScript array read past its end is undefined).
TimerNextInterval(t, ivs) ==
    IF t.retry + 1 \in DOMAIN ivs /\ ivs[t.retry + 1] # 0
    THEN ivs[t.retry + 1]
    ELSE FallbackInterval

\* clearTimeout(id): the timeout with that id, if it is still armed, is
\* cancelled; null (0) and the id of a timeout that fired cancel nothing.
ClearTimeout(timeouts, id) == {h \in timeouts : h.id # id}

\* The id setTimeout returns: one that no armed timeout has.
SetTimeoutId(timeouts) ==
    CHOOSE n \in 1..(Cardinality(timeouts) + 1) :
        /\ \A h \in timeouts : h.id # n
        /\ \A m \in 1..(n - 1) : \E h \in timeouts : h.id = m

\* A start() that arms a timeout without cancelling the one before.
TimerStartKeepsPrevious(t, ivs) ==
    [t EXCEPT !.timer = SetTimeoutId(t.timeouts),
              !.timeouts = @ \cup {[id |-> SetTimeoutId(t.timeouts),
                                    delay |-> TimerNextInterval(t, ivs)]}]

\* Timer.start: clearTimeout(this._timer), then this._timer = setTimeout(...,
\* this.nextInterval()).
TimerStart(t, ivs) ==
    LET armed == ClearTimeout(t.timeouts, t.timer)
        id == SetTimeoutId(armed)
    IN  [t EXCEPT !.timer = id,
                  !.timeouts = armed \cup {[id |-> id, delay |-> TimerNextInterval(t, ivs)]}]

\* Timer.reset: retry = 0, clearTimeout(this._timer).
TimerReset(t) ==
    [t EXCEPT !.retry = 0, !.timeouts = ClearTimeout(@, t.timer), !.fired = 0]

\* ----------------------------------------------------------------- Channel

\* Channel.on: the list for the event is created on first use.
ChannelOn(subs, event, fn) ==
    IF event \in DOMAIN subs
    THEN [subs EXCEPT ![event] = Append(@, fn)]
    ELSE (event :> <<fn>>) @@ subs

\* Channel.off(event) with no function: delete this._subscribers[event].
ChannelOff(subs, event) ==
    [e \in DOMAIN subs \ {event} |-> subs[e]]

\* this._subscribers[event] || [] in Channel.trigger.
Subscribers(subs, event) ==
    IF event \in DOMAIN subs THEN subs[event] ELSE <<>>

\* -------------------------------------------------------------------- Push

\* resolve(value) or reject(value) of the promise one call of send()
\* returned: a settled promise keeps its state and value.
Settle(p, state, value, by) ==
    IF p.promise = "pending"
    THEN [p EXCEPT !.promise = state, !.value = value, !.outcome = by]
    ELSE p

\* The subscribers the k-th call of send() on a Push registers with
\* this.on('ok' | 'error' | 'timeout'), called by Push.dispatch(status,
\* data): each closes over the timer and the promise of its own call.  st
\* holds the Push objects and the Channel objects; by says what called
\* dispatch.
PushSubscriber(st, ref, k, status, data, by) ==
    LET p == st.pushes[ref]
        off == [st.chan EXCEPT ![p.channel].subscribers =
                    ChannelOff(@, makeReplyEventName(ref))]
        ran == [p.sends[k] EXCEPT !.runs[status] = @ + 1]
    IN  CASE status = "ok" ->
                [st EXCEPT !.chan = off,
                           !.pushes[ref].sends[k] =
                               Settle([ran EXCEPT !.timer = FALSE], "resolved", data, by)]
          [] status = "error" ->
                [st EXCEPT !.chan = off,
                           !.pushes[ref].sends[k] =
                               Settle([ran EXCEPT !.timer = FALSE], "rejected", data, by)]
          [] status = "timeout" ->
                [st EXCEPT !.chan = off,
                           !.pushes[ref].sends[k] =
                               Settle(ran, "rejected", TimedOutMessage(ref), by)]

\* A subscriber the application registered with push.on(status, fn), called
\* by Push.dispatch as fn(data): the call and its argument are recorded, and
\* a function of ThrowingListeners throws.
AppSubscriber(st, ref, fn, data) ==
    LET called == [st EXCEPT !.calls = Append(@, [push |-> ref, fn |-> fn,
                                                  args |-> <<data>>])]
    IN  IF fn \in ThrowingListeners
        THEN [called EXCEPT !.thrown = TRUE]
        ELSE called

\* this.subscribers[status].forEach(cb => cb(data)) in Push.dispatch: the
\* subscribers run in order and an exception ends the loop.
RECURSIVE RunSubscribers(_, _, _, _, _, _)
RunSubscribers(st, ref, subs, status, data, by) ==
    IF subs = <<>> \/ st.thrown
    THEN st
    ELSE RunSubscribers(IF "fn" \in DOMAIN Head(subs)
                        THEN AppSubscriber(st, ref, Head(subs).fn, data)
                        ELSE PushSubscriber(st, ref, Head(subs).send, status, data, by),
                        ref, Tail(subs), status, data, by)

\* A dispatch that cancels the timeouts when the status names no list.
PushDispatchCancelsOnUnknown(st, ref, status, data, by) ==
    IF status \in {"ok", "error", "timeout"}
    THEN RunSubscribers(st, ref, st.pushes[ref].subscribers[status], status, data, by)
    ELSE [st EXCEPT !.thrown = TRUE,
                    !.pushes[ref].sends = [k \in DOMAIN @ |-> [@[k] EXCEPT !.timer = FALSE]]]

\* Push.dispatch: this.subscribers[status].forEach(cb => cb(data)); a status
\* that names no subscriber list throws a TypeError.
PushDispatch(st, ref, status, data, by) ==
    IF status \in {"ok", "error", "timeout"}
    THEN RunSubscribers(st, ref, st.pushes[ref].subscribers[status], status, data, by)
    ELSE [st EXCEPT !.thrown = TRUE]

\* The reply listener each call of Push.send registers on the Channel:
\*   ({ data: eventData }) => { let { status, data } = eventData; ... }
\* Destructuring undefined throws a TypeError.
ReplyListener(st, ref, eventData) ==
    LET seen == [st EXCEPT !.notified = @ \cup {ref}]
    IN  IF IsObject(eventData)
        THEN PushDispatch(seen, ref, Field(eventData, "status"),
                          Field(eventData, "data"),
                          IF Field(eventData, "status") = "timeout"
                          THEN "reply_timeout" ELSE Field(eventData, "status"))
        ELSE [seen EXCEPT !.thrown = TRUE]

\* A listener the application registered with channel.on(event, fn), called
\* by Channel.trigger as fn({event, data, ref}): the call and its arguments
\* are recorded, and a listener of ThrowingListeners throws.
AppListener(st, c, fn, event, data, ref) ==
    LET arg == [event |-> event, data |-> data, ref |-> ref]
        called == [st EXCEPT !.calls = Append(@, [channel |-> c, fn |-> fn,
                                                  args |-> <<arg>>])]
    IN  IF fn \in ThrowingListeners
        THEN [called EXCEPT !.thrown = TRUE]
        ELSE called

\* subscribers.forEach(fn => fn({event, data, ref})) in Channel.trigger of
\* Channel c: the listeners run in order and an exception ends the loop.
RECURSIVE RunListeners(_, _, _, _, _, _)
RunListeners(st, c, fns, event, data, ref) ==
    IF fns = <<>> \/ st.thrown
    THEN st
    ELSE RunListeners(IF "push" \in DOMAIN Head(fns)
                      THEN ReplyListener(st, Head(fns).push, data)
                      ELSE AppListener(st, c, Head(fns).fn, event, data, ref),
                      c, Tail(fns), event, data, ref)

\* Channel.trigger(event, data, ref) of the Channel with id c: the listeners
\* of this._subscribers[event] || [], read before the first of them runs.
ChannelTrigger(st, c, event, data, ref) ==
    RunListeners(st, c, Subscribers(st.chan[c].subscribers, event), event, data, ref)

\* Channel.dispatch({event, data, ref}) of the Channel with id c: a frame of
\* event Reply, whose data is an object, is triggered under the reply-event
\* name of its ref.
ChannelDispatch(st, c, frame) ==
    IF Field(frame, "event") = ChannelEvents.Reply
    THEN ChannelTrigger(st, c, makeReplyEventName(Field(frame, "ref")),
                        ObjField(frame, "data"), Field(frame, "ref"))
    ELSE ChannelTrigger(st, c, Field(frame, "event"), Field(frame, "data"),
                        Field(frame, "ref"))

\* channels.forEach(ch => ch.dispatch(data)) in _dispatchChannelMessage.
RECURSIVE DispatchChannels(_, _, _)
DispatchChannels(st, chs, frame) ==
    IF chs = <<>> \/ st.thrown
    THEN st
    ELSE DispatchChannels(ChannelDispatch(st, Head(chs), frame), Tail(chs), frame)

\* Socket._dispatchChannelMessage, the 'message' subscriber of the
\* constructor: a frame without a topic is ignored.
DispatchChannelMessage(st, frame) ==
    IF Field(frame, "topic") = "undefined"
    THEN st
    ELSE DispatchChannels(st,
             IF frame.topic \in DOMAIN channels THEN channels[frame.topic] ELSE <<>>,
             frame)

\* ------------------------------------------------------------------ Socket

\* new WebSocket(url), with the promise connect() returns for it and who
\* called connect(): the application ("app") or the reconnect timer ("timer").
NewWebSocket(caller) ==
    [readyState |-> "connecting", opened |-> FALSE, promise |-> "pending",
     caller |-> caller]

\* Socket.connect: sets closeWasClean, creates a WebSocket and attaches the
\* four handlers to it; the previous WebSocket keeps its handlers.
SocketConnect(caller) ==
    /\ Len(ws) < MaxSockets
    /\ ws' = Append(ws, NewWebSocket(caller))
    /\ socket' = Len(ws) + 1
    /\ closeWasClean' = "true"

\* The 'open' subscriber the constructor registers.
OnOpen(t) == TimerReset(t)

\* A 'close' subscriber that schedules one reconnect and then gives up.
OnCloseGivesUp(t, ivs, wasClean) ==
    IF wasClean \/ t.retry > 0 THEN TimerReset(t) ELSE TimerStart(t, ivs)

\* The 'close' subscriber the constructor registers.
OnClose(t, ivs, wasClean) ==
    IF wasClean THEN TimerReset(t) ELSE TimerStart(t, ivs)

\* The event objects a transport hands to its handlers, with the keys the
\* program and this model read.
EventOpen == [type |-> "open"]
EventError == [type |-> "error"]
EventClose(wasClean) == [type |-> "close", wasClean |-> wasClean]

\* A subscriber the application registered with socket.on(type, fn), called
\* by Socket.dispatch as fn(arg): the call and its argument are recorded, and
\* a function of ThrowingListeners throws.
SocketListener(st, type, fn, arg) ==
    LET called == [st EXCEPT !.calls = Append(@, [socket |-> type, fn |-> fn,
                                                  args |-> <<arg>>])]
    IN  IF fn \in ThrowingListeners
        THEN [called EXCEPT !.thrown = TRUE]
        ELSE called

\* One function of Socket._subscribers[type], called as fn(arg): one of the
\* three subscribers of the constructor or one of the application.
SocketSubscriber(st, type, fn, arg) ==
    CASE fn = "onOpen" -> [st EXCEPT !.timer = OnOpen(@)]
      [] fn = "onClose" -> [st EXCEPT !.timer = OnClose(@, intervals, arg.wasClean)]
      [] fn = "onMessage" -> DispatchChannelMessage(st, arg)
      [] OTHER -> SocketListener(st, type, fn, arg)

\* forEach(fn => fn(...args)) over a list of subscribers of the Socket: they
\* run in order and an exception ends the loop.
RECURSIVE RunSocketSubscribers(_, _, _, _)
RunSocketSubscribers(st, type, fns, arg) ==
    IF fns = <<>> \/ st.thrown
    THEN st
    ELSE RunSocketSubscribers(SocketSubscriber(st, type, Head(fns), arg), type,
                              Tail(fns), arg)

\* Socket.dispatch(type, arg): every function of this._subscribers[type], the
\* subscriber of the constructor first and then those of the application in
\* the order of their on() calls.
SocketDispatch(st, type, arg) == RunSocketSubscribers(st, type, subscribers[type], arg)

\* A task of the Socket that calls neither on() nor off().
NoSubscriberCall ==
    /\ lastCall' = NoCall
    /\ UNCHANGED subscribers

\* The application calls socket.connect().
AppConnect ==
    /\ AppTurn
    /\ SocketConnect("app")
    /\ disconnectRequested' = FALSE
    /\ UNCHANGED <<intervals, reconnectTimer, errored>>
    /\ UNCHANGED channelVars
    /\ NoListenerTask

\* A timeout of the reconnect timer expires: retry += 1, then fn() =
\* this.connect().
ReconnectTimerFire ==
    /\ TaskTurn
    /\ \E h \in reconnectTimer.timeouts :
           reconnectTimer' = [reconnectTimer EXCEPT !.timeouts = @ \ {h}, !.retry = @ + 1,
                                                    !.fired = h.delay]
    /\ SocketConnect("timer")
    /\ UNCHANGED <<intervals, disconnectRequested, errored>>
    /\ UNCHANGED channelVars
    /\ NoListenerTask

\* An open event that also transmits the frames Socket.send did not send.
TransportOpenSendsQueued(i) ==
    /\ TaskTurn
    /\ ws[i].readyState = "connecting"
    /\ LET st == SocketDispatch(TaskStart, "open", EventOpen)
       IN  /\ ws' = [ws EXCEPT ![i] = [@ EXCEPT !.readyState = "open", !.opened = TRUE,
                                                !.promise = IF st.thrown THEN @
                                                            ELSE "resolved"]]
           /\ reconnectTimer' = st.timer
           /\ calls' = st.calls
    /\ wire' = IF \E n \in DOMAIN handed : handed[n].result # "sent"
               THEN LET n == CHOOSE m \in DOMAIN handed : handed[m].result # "sent"
                    IN  Append(wire, [via |-> i, frame |-> handed[n].frame, call |-> n])
               ELSE wire
    /\ UNCHANGED <<intervals, socket, errored, closeWasClean, disconnectRequested>>
    /\ UNCHANGED <<channels, chan, pushes, refCounter, refsIssued, handed>>
    /\ NoSubscriberCall

\* The transport's open event: onopen dispatches 'open', which resets the
\* reconnect timer and calls the subscribers of the application, and then
\* resolves the promise connect() returned; a subscriber that throws ends
\* the handler before it resolves.
TransportOpen(i) ==
    /\ TaskTurn
    /\ ws[i].readyState = "connecting"
    /\ LET st == SocketDispatch(TaskStart, "open", EventOpen)
       IN  /\ ws' = [ws EXCEPT ![i] = [@ EXCEPT !.readyState = "open", !.opened = TRUE,
                                                !.promise = IF st.thrown THEN @
                                                            ELSE "resolved"]]
           /\ reconnectTimer' = st.timer
           /\ calls' = st.calls
    /\ UNCHANGED <<intervals, socket, errored, closeWasClean, disconnectRequested>>
    /\ UNCHANGED channelVars
    /\ NoSubscriberCall

\* The transport fails: readyState becomes CLOSED and its error event fires.
\* onerror dispatches 'error', which calls the subscribers of the application
\* (the constructor registers none), and then rejects the promise of
\* connect(), a no-op once it is settled; a subscriber that throws ends the
\* handler before it rejects.  The close event of the transport is the next
\* step of the task.
TransportError(i) ==
    /\ TaskTurn
    /\ ws[i].readyState \in {"connecting", "open", "closing"}
    /\ LET st == SocketDispatch(TaskStart, "error", EventError)
       IN  /\ ws' = [ws EXCEPT ![i] = [@ EXCEPT !.readyState = "closed",
                                                !.promise = IF @ = "pending" /\ ~st.thrown
                                                            THEN "rejected" ELSE @]]
           /\ calls' = st.calls
    /\ errored' = i
    /\ UNCHANGED <<intervals, socket, closeWasClean, reconnectTimer, disconnectRequested>>
    /\ UNCHANGED channelVars
    /\ NoSubscriberCall

\* The close event of transport i can fire: the one that follows its error
\* event, with wasClean false, or, with no error event, that of a transport
\* that had opened (the peer closed it, the link dropped, or the close
\* handshake that disconnect() started ended).
CloseEvent(i, wasClean) ==
    \/ errored = i /\ ~wasClean
    \/ TaskTurn /\ ws[i].readyState \in {"open", "closing"} /\ ws[i].opened

\* A close event that rejects every Push still pending.
TransportCloseRejectsPushes(i, wasClean) ==
    /\ CloseEvent(i, wasClean)
    /\ ws' = [ws EXCEPT ![i] = [@ EXCEPT !.readyState = "closed"]]
    /\ errored' = 0
    /\ LET st == SocketDispatch(TaskStart, "close", EventClose(wasClean))
       IN  /\ reconnectTimer' = st.timer
           /\ calls' = st.calls
    /\ pushes' = [r \in DOMAIN pushes |->
                     [pushes[r] EXCEPT !.sends =
                          [k \in DOMAIN @ |->
                              IF @[k].promise = "pending"
                              THEN [@[k] EXCEPT !.promise = "rejected",
                                                !.value = "ConnectionLost",
                                                !.outcome = "closed"]
                              ELSE @[k]]]]
    /\ UNCHANGED <<intervals, socket, closeWasClean, disconnectRequested>>
    /\ UNCHANGED <<channels, chan, refCounter, refsIssued, wire, handed>>
    /\ NoSubscriberCall

\* The close event of a transport, which reports wasClean: onclose
\* dispatches 'close': the subscriber of the constructor resets or starts the
\* reconnect timer, and then the subscribers of the application are called.
TransportClose(i, wasClean) ==
    /\ CloseEvent(i, wasClean)
    /\ ws' = [ws EXCEPT ![i] = [@ EXCEPT !.readyState = "closed"]]
    /\ errored' = 0
    /\ LET st == SocketDispatch(TaskStart, "close", EventClose(wasClean))
       IN  /\ reconnectTimer' = st.timer
           /\ calls' = st.calls
    /\ UNCHANGED <<intervals, socket, closeWasClean, disconnectRequested>>
    /\ UNCHANGED channelVars
    /\ NoSubscriberCall

\* The close event that ends the task of a transport's error event.
ErrorClose == \E i \in DOMAIN ws : errored = i /\ TransportClose(i, FALSE)

\* WebSocket.close(): starts closing a connecting or open transport, and does
\* nothing to one that is closing or closed.
WebSocketClose(w) ==
    IF w.readyState \in {"connecting", "open"}
    THEN [w EXCEPT !.readyState = "closing"]
    ELSE w

\* Socket.disconnect -> Socket.teardown: this._socket.close(code, reason).
\* With _socket null the call throws inside the promise executor and the
\* returned promise rejects; nothing else changes.
Disconnect ==
    /\ AppTurn
    /\ ws' = IF socket = 0 THEN ws ELSE [ws EXCEPT ![socket] = WebSocketClose(@)]
    /\ disconnectRequested' = TRUE
    /\ UNCHANGED <<intervals, socket, errored, closeWasClean, reconnectTimer>>
    /\ UNCHANGED channelVars
    /\ NoListenerTask

\* Socket.teardown(code, reason), called by the application itself: the same
\* this._socket.close(code, reason), and no disconnect() was called.
Teardown ==
    /\ AppTurn
    /\ ws' = IF socket = 0 THEN ws ELSE [ws EXCEPT ![socket] = WebSocketClose(@)]
    /\ UNCHANGED <<intervals, socket, errored, closeWasClean, reconnectTimer,
                   disconnectRequested>>
    /\ UNCHANGED channelVars
    /\ NoListenerTask

\* The interval timers the Socket has armed.  The class Socket calls
\* setInterval nowhere and has no heartbeat method (resetHeartbeat and
\* heartbeat belong to the earlier class Socket2), so it arms none.
HeartbeatTimers == {}

\* Socket.nextRef.
NextRef(counter) == counter + 1

\* The refs a server may answer: those nextRef() can have returned.
Refs == NextRef(1)..MaxRef

\* What this._socket.send(...) does in Socket.send: "TypeError" when _socket
\* is null, "InvalidStateError" when the transport is still connecting,
\* "sent" when it is open, and "dropped" when it is closing or closed (the
\* browser discards the data without throwing).
SocketSend ==
    IF socket = 0 THEN "TypeError"
    ELSE CASE ws[socket].readyState = "connecting" -> "InvalidStateError"
           [] ws[socket].readyState = "open" -> "sent"
           [] OTHER -> "dropped"

\* Socket.send(data) with the frame a Push (push is its ref) or the
\* application (push is 0) hands to it: the call is recorded, and an open
\* transport takes the frame.
SocketSendFrame(frame, push) ==
    /\ handed' = Append(handed, [frame |-> JSONStringify(frame), result |-> SocketSend,
                                 push |-> push])
    /\ wire' = IF SocketSend = "sent"
               THEN Append(wire, [via |-> socket, frame |-> JSONStringify(frame),
                                  call |-> Len(handed) + 1])
               ELSE wire

\* new Push(socket, channel, event, data, timeout): the constructor takes its
\* ref from nextRef() and starts with three empty subscriber lists.  held
\* says whether the application holds the Push (createPush returned it).
NewPush(c, event, data, held) ==
    [channel |-> c, event |-> event, data |-> data, held |-> held,
     subscribers |-> [ok |-> <<>>, error |-> <<>>, timeout |-> <<>>],
     \* one entry per call of send(): the timeout it armed, the promise it
     \* returned and, as history, what Socket.send did with the frame, what
     \* settled the promise, whether the timeout expired, and how often each
     \* of the three subscribers of the call ran
     sends |-> <<>>]

\* Push.send() on the Push ref of ps: registers a reply listener on the
\* Channel, arms a timeout, registers the three subscribers and hands the
\* frame to Socket.send, whose exception (thrown inside the promise
\* executor) rejects the promise.
PushSendOn(ps, ref) ==
    LET p == ps[ref]
        k == Len(p.sends) + 1
        frame == [topic |-> chan[p.channel].topic, event |-> p.event, data |-> p.data,
                  ref |-> ref]
        sent == SocketSend
        new == [timer |-> TRUE, promise |-> "pending", value |-> "undefined",
                sent |-> sent, outcome |-> "none", expired |-> FALSE,
                runs |-> [ok |-> 0, error |-> 0, timeout |-> 0]]
    IN  /\ chan' = [chan EXCEPT ![p.channel].subscribers =
                        ChannelOn(@, makeReplyEventName(ref), [push |-> ref])]
        /\ pushes' = [ps EXCEPT ![ref] =
                         [p EXCEPT !.subscribers =
                                       [ok |-> Append(@.ok, [send |-> k]),
                                        error |-> Append(@.error, [send |-> k]),
                                        timeout |-> Append(@.timeout, [send |-> k])],
                                   !.sends =
                                       Append(@, IF sent \in {"TypeError", "InvalidStateError"}
                                                 THEN Settle(new, "rejected", sent, "send_failed")
                                                 ELSE new)]]
        /\ SocketSendFrame(frame, ref)

\* new Push(socket, channel, event, data, timeout).send(), as Channel.join
\* and Channel.send call it: the Push is constructed and sent in one call,
\* and the application gets the promise, not the Push.
PushSend(c, event, data) ==
    LET ref == NextRef(refCounter)
    IN  /\ AppTurn
        /\ refCounter < MaxRef
        /\ refCounter' = ref
        /\ refsIssued' = Append(refsIssued, ref)
        /\ PushSendOn((ref :> NewPush(c, event, data, FALSE)) @@ pushes, ref)
        /\ UNCHANGED <<intervals, channels>>
        /\ UNCHANGED transportVars
        /\ NoListenerTask

\* Channel.createPush(event, data): constructs a Push, which takes a ref,
\* and returns it unsent.
CreatePush(c, event, data) ==
    LET ref == NextRef(refCounter)
    IN  /\ AppTurn
        /\ refCounter < MaxRef
        /\ refCounter' = ref
        /\ refsIssued' = Append(refsIssued, ref)
        /\ pushes' = (ref :> NewPush(c, event, data, TRUE)) @@ pushes
        /\ UNCHANGED <<intervals, channels, chan, wire, handed>>
        /\ UNCHANGED transportVars
        /\ NoListenerTask

\* The application calls send() on a Push it holds, for the first time or
\* again.
PushSendCall(ref) ==
    /\ AppTurn
    /\ pushes[ref].held
    /\ Len(pushes[ref].sends) < MaxSends
    /\ PushSendOn(pushes, ref)
    /\ UNCHANGED <<intervals, channels, refCounter, refsIssued>>
    /\ UNCHANGED transportVars
    /\ NoListenerTask

\* Push.on(status, fn): this.subscribers[status].push(fn); with a status
\* that names no list, push is read from undefined: a TypeError.
PushOn(subs, status, fn) ==
    IF status \in DOMAIN subs
    THEN [subscribers |-> [subs EXCEPT ![status] = Append(@, [fn |-> fn])], error |-> "none"]
    ELSE [subscribers |-> subs, error |-> "TypeError"]

\* The subscribers the application has registered on the Pushes.
PushListenerCount ==
    Cardinality({<<r, s, i>> \in (DOMAIN pushes) \X {"ok", "error", "timeout"}
                                 \X (1..(MaxListeners + MaxSends + 1)) :
                    /\ i <= Len(pushes[r].subscribers[s])
                    /\ "fn" \in DOMAIN pushes[r].subscribers[s][i]})

\* The application calls on(status, fn) on a Push it holds.
PushOnCall(ref, status, fn) ==
    LET r == PushOn(pushes[ref].subscribers, status, fn)
    IN  /\ AppTurn
        /\ pushes[ref].held
        /\ PushListenerCount < MaxListeners
        /\ pushes' = [pushes EXCEPT ![ref].subscribers = r.subscribers]
        /\ lastCall' = [op |-> "Push.on", error |-> r.error, removed |-> 0]
        /\ calls' = <<>>
        /\ UNCHANGED <<intervals, transportVars, channels, chan, refCounter, refsIssued,
                       wire, handed, subscribers>>

\* The application calls dispatch(status, data) on a Push it holds.
PushDispatchCall(ref, status, data) ==
    /\ AppTurn
    /\ pushes[ref].held
    /\ \A k \in DOMAIN pushes[ref].sends :
           status \in DOMAIN pushes[ref].sends[k].runs
           => pushes[ref].sends[k].runs[status] < MaxRuns
    /\ LET st == PushDispatch(TaskStart, ref, status, data, "app")
       IN  /\ pushes' = st.pushes
           /\ chan' = st.chan
           /\ calls' = st.calls
    /\ lastCall' = NoCall
    /\ UNCHANGED <<intervals, transportVars, channels, refCounter, refsIssued, wire,
                   handed, subscribers>>

\* The frames the application hands to Socket.send itself.
RawFrames == [topic : {"room:lobby"}, event : AppEvents, data : Payloads, ref : Refs]

\* The application calls socket.send(data) with a frame of its own.
SocketSendCall(frame) ==
    /\ AppTurn
    /\ Cardinality({n \in DOMAIN handed : handed[n].push = 0}) < MaxSends
    /\ SocketSendFrame(frame, 0)
    /\ UNCHANGED <<intervals, channels, chan, pushes, refCounter, refsIssued>>
    /\ UNCHANGED transportVars
    /\ NoListenerTask

\* The application calls socket.nextRef().
NextRefCall ==
    /\ AppTurn
    /\ refCounter < MaxRef
    /\ refCounter' = NextRef(refCounter)
    /\ refsIssued' = Append(refsIssued, NextRef(refCounter))
    /\ UNCHANGED <<intervals, channels, chan, pushes, wire, handed>>
    /\ UNCHANGED transportVars
    /\ NoListenerTask

\* Socket.channel(topic).
CreateChannel(topic) ==
    /\ AppTurn
    /\ Len(chan) < MaxChannels
    /\ chan' = Append(chan, [topic |-> topic, subscribers |-> <<>>])
    /\ channels' = IF topic \in DOMAIN channels
                   THEN [channels EXCEPT ![topic] = Append(@, Len(chan) + 1)]
                   ELSE (topic :> <<Len(chan) + 1>>) @@ channels
    /\ UNCHANGED <<intervals, pushes, refCounter, refsIssued, wire, handed>>
    /\ UNCHANGED transportVars
    /\ NoListenerTask

\* Channel.join(): a Push of event JOIN with data null.
ChannelJoin(c) == PushSend(c, ChannelEvents.JOIN, "null")

\* Channel.send(event, data).
ChannelSend(c, event, data) == PushSend(c, event, data)

\* The timeout that the k-th call of send() on a Push armed expires:
\* this.dispatch('timeout').
PushTimeout(ref, k) ==
    /\ TaskTurn
    /\ pushes[ref].sends[k].timer
    /\ LET st == PushDispatch([TaskStart EXCEPT !.pushes[ref].sends[k].timer = FALSE,
                                                !.pushes[ref].sends[k].expired = TRUE],
                              ref, "timeout", "undefined", "timer")
       IN  /\ pushes' = st.pushes
           /\ chan' = st.chan
           /\ calls' = st.calls
    /\ lastCall' = NoCall
    /\ UNCHANGED <<intervals, channels, refCounter, refsIssued, wire, handed, subscribers>>
    /\ UNCHANGED transportVars

\* A transport whose message events can fire.
CanReceive == \E i \in DOMAIN ws : ws[i].readyState = "open"

\* What the message task does: this.dispatch('message', frame) in onmessage,
\* with the frame JSON.parse returned.  The result holds the Push and Channel
\* objects after it, the refs whose reply listener it invoked, the
\* application listeners it called and whether an exception escaped.
Deliver(frame) == SocketDispatch(TaskStart, "message", frame)

\* The message event of an open transport: onmessage parses the frame and
\* dispatches 'message': the subscriber of the constructor routes it to the
\* Channels, and then the subscribers of the application are called with it.
TransportMessage(frame) ==
    /\ TaskTurn
    /\ CanReceive
    /\ LET st == Deliver(frame)
       IN  /\ pushes' = st.pushes
           /\ chan' = st.chan
           /\ calls' = st.calls
    /\ lastCall' = NoCall
    /\ UNCHANGED <<intervals, channels, refCounter, refsIssued, wire, handed, subscribers>>
    /\ UNCHANGED transportVars

\* ---------------------------------------------------------- listener calls

\* Socket.on(event, fn): the new subscriber lists and the exception thrown.
\* A name that is no key of _subscribers throws the Error of line 552; an
\* inherited name passes the in test, and push is no method of its value.
SocketOn(subs, event, fn) ==
    CASE event \in DOMAIN subs ->
            [subscribers |-> [subs EXCEPT ![event] = Append(@, fn)], error |-> "none"]
      [] event \in InheritedKeys -> [subscribers |-> subs, error |-> "TypeError"]
      [] OTHER -> [subscribers |-> subs, error |-> "Error"]

\* A Socket.off that drops every subscriber of the event.
SocketOffDropsAll(subs, event, fn) ==
    CASE event \in DOMAIN subs ->
            [subscribers |-> [subs EXCEPT ![event] = <<>>], error |-> "none"]
      [] OTHER -> [subscribers |-> [e \in DOMAIN subs |-> <<>>], error |-> "none"]

\* Socket.off(event, fn): filter(cb => cb !== fn) on the event's list.
SocketOff(subs, event, fn) ==
    LET Keep(cb) == cb # fn
    IN  CASE event \in DOMAIN subs ->
                [subscribers |-> [subs EXCEPT ![event] = SelectSeq(@, Keep)],
                 error |-> "none"]
          [] event \in InheritedKeys -> [subscribers |-> subs, error |-> "TypeError"]
          [] OTHER -> [subscribers |-> subs, error |-> "Error"]

\* The subscribers the application has registered on the Socket.
SocketListenerCount ==
    Cardinality({<<e, i>> \in SocketEvents \X (1..(MaxListeners + 1)) :
                    i <= Len(subscribers[e]) - Len(LibrarySubscribers[e])})

\* The application calls socket.on(event, fn).
SocketOnCall(event, fn) ==
    LET r == SocketOn(subscribers, event, fn)
    IN  /\ AppTurn
        /\ SocketListenerCount < MaxListeners
        /\ subscribers' = r.subscribers
        /\ lastCall' = [op |-> "Socket.on", error |-> r.error, removed |-> 0]
        /\ calls' = <<>>
        /\ UNCHANGED <<intervals, transportVars, channelVars>>

\* The application calls socket.off(event, fn).
SocketOffCall(event, fn) ==
    LET r == SocketOff(subscribers, event, fn)
    IN  /\ AppTurn
        /\ subscribers' = r.subscribers
        /\ lastCall' = [op |-> "Socket.off", error |-> r.error,
                        removed |-> IF event \in DOMAIN subscribers
                                    THEN Len(subscribers[event]) - Len(r.subscribers[event])
                                    ELSE 0]
        /\ calls' = <<>>
        /\ UNCHANGED <<intervals, transportVars, channelVars>>

\* A Channel.off(event, fn) that drops the first listener of the event.
ChannelOffFnDropsFirst(subs, event, fn) ==
    IF event \in DOMAIN subs
    THEN [subscribers |-> [subs EXCEPT ![event] = IF @ = <<>> THEN @ ELSE Tail(@)],
          error |-> "none"]
    ELSE [subscribers |-> subs, error |-> "TypeError"]

\* Channel.off(event, fn) with a function: the event's list without fn.
\* With no list for the event, filter is read from undefined: a TypeError.
ChannelOffFn(subs, event, fn) ==
    LET Keep(cb) == cb # [fn |-> fn]
    IN  IF event \in DOMAIN subs
        THEN [subscribers |-> [subs EXCEPT ![event] = SelectSeq(@, Keep)],
              error |-> "none"]
        ELSE [subscribers |-> subs, error |-> "TypeError"]

\* The listeners the application has registered on the Channels.
ChannelListenerCount ==
    Cardinality({<<c, e, i>> \in (DOMAIN chan) \X ListenEvents \X (1..(MaxListeners + 1)) :
                    i <= Len(Subscribers(chan[c].subscribers, e))})

\* The application calls channel.on(event, fn) on Channel c.
ChannelOnCall(c, event, fn) ==
    /\ AppTurn
    /\ ChannelListenerCount < MaxListeners
    /\ chan' = [chan EXCEPT ![c].subscribers = ChannelOn(@, event, [fn |-> fn])]
    /\ lastCall' = [op |-> "Channel.on", error |-> "none", removed |-> 0]
    /\ calls' = <<>>
    /\ UNCHANGED <<intervals, transportVars, channels, pushes, refCounter,
                   refsIssued, wire, handed, subscribers>>

\* The application calls channel.off(event) on Channel c.
ChannelOffCall(c, event) ==
    /\ AppTurn
    /\ chan' = [chan EXCEPT ![c].subscribers = ChannelOff(@, event)]
    /\ lastCall' = [op |-> "Channel.off", error |-> "none",
                    removed |-> Len(Subscribers(chan[c].subscribers, event))]
    /\ calls' = <<>>
    /\ UNCHANGED <<intervals, transportVars, channels, pushes, refCounter,
                   refsIssued, wire, handed, subscribers>>

\* The application calls channel.off(event, fn) on Channel c.
ChannelOffFnCall(c, event, fn) ==
    LET r == ChannelOffFn(chan[c].subscribers, event, fn)
    IN  /\ AppTurn
        /\ chan' = [chan EXCEPT ![c].subscribers = r.subscribers]
        /\ lastCall' = [op |-> "Channel.off(fn)", error |-> r.error,
                        removed |-> Len(Subscribers(chan[c].subscribers, event))
                                    - Len(Subscribers(r.subscribers, event))]
        /\ calls' = <<>>
        /\ UNCHANGED <<intervals, transportVars, channels, pushes, refCounter,
                       refsIssued, wire, handed, subscribers>>

\* ------------------------------------------------------------- environment

\* The values a reply carries back: the data of a join (null) or of a send.
ReplyValues == {"null"} \cup Payloads

\* Reply payloads as Push.send reads them: {status, data}.
CodeReplyBodies == [status : Statuses, data : ReplyValues]

\* Reply payloads as the wire format of the specification writes them:
\* {status, response}.
SpecReplyBodies == [status : {"ok", "error"}, response : Payloads]

\* The frames a server may send.  CodeFrames carry the reply payload under
\* the key data, as Channel.dispatch reads it; SpecFrames are the frames of
\* the specification's wire format, {topic, event, payload, ref}.
CodeFrames ==
    [topic : Topics, event : {ChannelEvents.Reply}, data : CodeReplyBodies, ref : Refs]

SpecFrames ==
    [topic : Topics, event : {ChannelEvents.Reply}, payload : SpecReplyBodies, ref : Refs]

MixedFrames ==
    [topic : Topics, event : {ChannelEvents.Reply}, data : SpecReplyBodies, ref : Refs]

InboundFrames == CodeFrames \cup SpecFrames \cup MixedFrames

\* Frames of application events.  CodeAppFrames carry the payload under the
\* key data, as Channel.dispatch reads it; SpecAppFrames carry it under the
\* key payload, as the wire format of the specification writes it.
CodeAppFrames ==
    [topic : Topics, event : ListenEvents, data : Payloads, ref : {"null"}]

SpecAppFrames ==
    [topic : Topics, event : ListenEvents, payload : Payloads, ref : {"null"}]

AppFrames == CodeAppFrames \cup SpecAppFrames

\* The calls channel.trigger(event, data, ref) the application makes: those
\* Channel.dispatch makes for the frames a server may send, which carry the
\* payload under the key data.
AppTriggerCalls ==
    {[event |-> f.event, data |-> f.data, ref |-> f.ref] : f \in CodeAppFrames}

ReplyTriggerCalls ==
    {[event |-> makeReplyEventName(f.ref), data |-> f.data, ref |-> f.ref] :
        f \in CodeFrames}

\* ------------------------------------------------------------ direct calls

\* The events the application passes to socket.dispatch(type, event): those
\* a transport would pass (with 'message' it passes a frame).
SocketDispatchArgs(type) ==
    CASE type = "close" -> {EventClose(TRUE), EventClose(FALSE)}
      [] type = "error" -> {EventError}
      [] OTHER -> {EventOpen}

\* The application calls socket.dispatch(type, arg).  With a name that is no
\* key of _subscribers, forEach is read from undefined (from a function, for
\* an inherited name): a TypeError, and nothing changes.
SocketDispatchCall(type, arg) ==
    /\ AppTurn
    /\ LET st == IF type \in DOMAIN subscribers
                 THEN SocketDispatch(TaskStart, type, arg)
                 ELSE [TaskStart EXCEPT !.thrown = TRUE]
       IN  /\ reconnectTimer' = st.timer
           /\ pushes' = st.pushes
           /\ chan' = st.chan
           /\ calls' = st.calls
    /\ UNCHANGED <<intervals, ws, socket, errored, closeWasClean, disconnectRequested,
                   channels, refCounter, refsIssued, wire, handed>>
    /\ NoSubscriberCall

\* The application calls socket.reconnectTimer.start().
TimerStartCall ==
    /\ AppTurn
    /\ reconnectTimer' = TimerStart(reconnectTimer, intervals)
    /\ UNCHANGED <<intervals, ws, socket, errored, closeWasClean, disconnectRequested>>
    /\ UNCHANGED channelVars
    /\ NoListenerTask

\* The application calls socket.reconnectTimer.reset().
TimerResetCall ==
    /\ AppTurn
    /\ reconnectTimer' = TimerReset(reconnectTimer)
    /\ UNCHANGED <<intervals, ws, socket, errored, closeWasClean, disconnectRequested>>
    /\ UNCHANGED channelVars
    /\ NoListenerTask

\* The application calls channel.dispatch(frame) on Channel c, whatever the
\* topic of the frame and the state of the transport.
ChannelDispatchCall(c, frame) ==
    /\ AppTurn
    /\ LET st == ChannelDispatch(TaskStart, c, frame)
       IN  /\ pushes' = st.pushes
           /\ chan' = st.chan
           /\ calls' = st.calls
    /\ UNCHANGED <<intervals, channels, refCounter, refsIssued, wire, handed>>
    /\ UNCHANGED transportVars
    /\ NoSubscriberCall

\* The application calls channel.trigger(event, data, ref) on Channel c.
ChannelTriggerCall(c, event, data, ref) ==
    /\ AppTurn
    /\ LET st == ChannelTrigger(TaskStart, c, event, data, ref)
       IN  /\ pushes' = st.pushes
           /\ chan' = st.chan
           /\ calls' = st.calls
    /\ UNCHANGED <<intervals, channels, refCounter, refsIssued, wire, handed>>
    /\ UNCHANGED transportVars
    /\ NoSubscriberCall

\* --------------------------------------------------------------------- run

\* The Socket as its constructor leaves it, whatever its options.
Constructed ==
    /\ ws = <<>>
    /\ socket = 0
    /\ errored = 0
    /\ closeWasClean = "undefined"
    /\ reconnectTimer = [retry |-> 0, timer |-> 0, timeouts |-> {}, fired |-> 0]
    /\ refCounter = 1
    /\ channels = <<>>
    /\ chan = <<>>
    /\ pushes = <<>>
    /\ wire = <<>>
    /\ handed = <<>>
    /\ refsIssued = <<>>
    /\ disconnectRequested = FALSE
    /\ subscribers = LibrarySubscribers
    /\ calls = <<>>
    /\ lastCall = NoCall

Init ==
    /\ intervals \in IntervalChoices
    /\ Constructed

\* Every task the event loop can run.
Next ==
    \/ AppConnect
    \/ ReconnectTimerFire
    \/ \E i \in DOMAIN ws : TransportOpen(i)
    \/ \E i \in DOMAIN ws : TransportError(i)
    \/ \E i \in DOMAIN ws, wasClean \in BOOLEAN : TransportClose(i, wasClean)
    \/ Disconnect
    \/ Teardown
    \/ \E topic \in Topics : CreateChannel(topic)
    \/ \E c \in DOMAIN chan : ChannelJoin(c)
    \/ \E c \in DOMAIN chan, event \in AppEvents, data \in Payloads : ChannelSend(c, event, data)
    \/ \E c \in DOMAIN chan, event \in AppEvents, data \in Payloads : CreatePush(c, event, data)
    \/ \E ref \in DOMAIN pushes : PushSendCall(ref)
    \/ \E ref \in DOMAIN pushes, status \in Statuses, fn \in Listeners \cup ThrowingListeners :
           PushOnCall(ref, status, fn)
    \/ \E ref \in DOMAIN pushes, status \in Statuses, data \in Payloads :
           PushDispatchCall(ref, status, data)
    \/ \E frame \in RawFrames : SocketSendCall(frame)
    \/ NextRefCall
    \/ \E ref \in DOMAIN pushes : \E k \in DOMAIN pushes[ref].sends : PushTimeout(ref, k)
    \/ \E frame \in InboundFrames : TransportMessage(frame)
    \/ \E frame \in AppFrames : TransportMessage(frame)
    \/ \E event \in SocketEventNames, fn \in Listeners \cup ThrowingListeners :
           SocketOnCall(event, fn)
    \/ \E event \in SocketEventNames, fn \in Listeners \cup ThrowingListeners :
           SocketOffCall(event, fn)
    \/ \E c \in DOMAIN chan, event \in ListenEvents, fn \in Listeners \cup ThrowingListeners :
           ChannelOnCall(c, event, fn)
    \/ \E c \in DOMAIN chan, event \in ListenEvents : ChannelOffCall(c, event)
    \/ \E c \in DOMAIN chan, event \in ListenEvents, fn \in Listeners \cup ThrowingListeners :
           ChannelOffFnCall(c, event, fn)
    \/ \E type \in SocketEventNames \ {"message"} : \E arg \in SocketDispatchArgs(type) :
           SocketDispatchCall(type, arg)
    \/ \E frame \in InboundFrames : SocketDispatchCall("message", frame)
    \/ \E frame \in AppFrames : SocketDispatchCall("message", frame)
    \/ TimerStartCall
    \/ TimerResetCall
    \/ \E c \in DOMAIN chan, frame \in InboundFrames : ChannelDispatchCall(c, frame)
    \/ \E c \in DOMAIN chan, frame \in AppFrames : ChannelDispatchCall(c, frame)
    \/ \E c \in DOMAIN chan, t \in AppTriggerCalls :
           ChannelTriggerCall(c, t.event, t.data, t.ref)
    \/ \E c \in DOMAIN chan, t \in ReplyTriggerCalls :
           ChannelTriggerCall(c, t.event, t.data, t.ref)

Spec == Init /\ [][Next]_vars

\* A Socket constructed with the default options.
InitDefault == Init /\ intervals = DEFAULT_INTERVALS

\* The application's first connect(): _socket is still null.
FirstConnect == socket = 0 /\ AppConnect

\* The application's first call of socket.channel(), and a call of it for
\* the topic of the first.
FirstChannel == chan = <<>> /\ CreateChannel("room:lobby")
LobbyChannel == CreateChannel("room:lobby")

\* The application has issued no Push yet.
IssuedNoPush == pushes = <<>>

\* The application holds no Push: createPush has returned none yet.
HoldsNoPush == \A r \in DOMAIN pushes : ~pushes[r].held

\* The reply frames a server sends on the topic of LobbyChannel, with the
\* reply payload under the key data.
LobbyFrames == {f \in CodeFrames : f.topic = "room:lobby"}

\* The Socket, its transports and the frames handed to Socket.send: the
\* application calls connect() once, every later connect() is the reconnect
\* timer's, and on one Channel the application joins, hands frames of its
\* own to Socket.send and takes refs with nextRef().  The server is silent
\* and no Push has waited out its timeout yet.
NextSocket ==
    \/ FirstConnect
    \/ ReconnectTimerFire
    \/ \E i \in DOMAIN ws : TransportOpen(i)
    \/ \E i \in DOMAIN ws : TransportError(i)
    \/ \E i \in DOMAIN ws, wasClean \in BOOLEAN : TransportClose(i, wasClean)
    \/ Disconnect
    \/ Teardown
    \/ FirstChannel
    \/ \E c \in DOMAIN chan : ChannelJoin(c)
    \/ \E frame \in RawFrames : SocketSendCall(frame)
    \/ NextRefCall

SpecSocket == InitDefault /\ [][NextSocket]_vars

\* The Pushes of one connection: every task of Next while the Socket has its
\* first transport (connect() is called once and a reconnect that an abnormal
\* close scheduled has not fired yet).
NextPush ==
    \/ FirstConnect
    \/ \E i \in DOMAIN ws : TransportOpen(i)
    \/ \E i \in DOMAIN ws : TransportError(i)
    \/ \E i \in DOMAIN ws, wasClean \in BOOLEAN : TransportClose(i, wasClean)
    \/ Disconnect
    \/ Teardown
    \/ \E topic \in Topics : CreateChannel(topic)
    \/ \E c \in DOMAIN chan : ChannelJoin(c)
    \/ \E c \in DOMAIN chan, event \in AppEvents, data \in Payloads : ChannelSend(c, event, data)
    \/ \E ref \in DOMAIN pushes : \E k \in DOMAIN pushes[ref].sends : PushTimeout(ref, k)
    \/ \E frame \in InboundFrames : TransportMessage(frame)

SpecPush == InitDefault /\ [][NextPush]_vars

\* The Pushes the application holds: on the Channels of one topic it joins,
\* gets one Push from createPush and calls send() on it, once or again,
\* while the server replies, the timeouts expire and the first transport
\* opens, fails and closes abnormally.
NextHeld ==
    \/ FirstConnect
    \/ \E i \in DOMAIN ws : TransportOpen(i)
    \/ \E i \in DOMAIN ws : TransportError(i)
    \/ \E i \in DOMAIN ws : TransportClose(i, FALSE)
    \/ LobbyChannel
    \/ \E c \in DOMAIN chan : ChannelJoin(c)
    \/ \E c \in DOMAIN chan, event \in AppEvents, data \in Payloads :
           HoldsNoPush /\ CreatePush(c, event, data)
    \/ \E ref \in DOMAIN pushes : PushSendCall(ref)
    \/ \E ref \in DOMAIN pushes : \E k \in DOMAIN pushes[ref].sends : PushTimeout(ref, k)
    \/ \E frame \in LobbyFrames : TransportMessage(frame)

SpecHeld == InitDefault /\ [][NextHeld]_vars

\* The subscribers of a Push the application holds: on a connection that
\* stays open the application gets one Push from createPush, registers one
\* subscriber on it and calls send() and dispatch() on it, while the
\* timeouts expire and the server is silent.
NextHook ==
    \/ FirstConnect
    \/ \E i \in DOMAIN ws : TransportOpen(i)
    \/ FirstChannel
    \/ \E c \in DOMAIN chan, event \in AppEvents, data \in Payloads :
           HoldsNoPush /\ CreatePush(c, event, data)
    \/ \E ref \in DOMAIN pushes : PushSendCall(ref)
    \/ \E ref \in DOMAIN pushes, status \in Statuses, fn \in Listeners \cup ThrowingListeners :
           PushListenerCount = 0 /\ PushOnCall(ref, status, fn)
    \/ \E ref \in DOMAIN pushes, status \in Statuses, data \in Payloads :
           PushDispatchCall(ref, status, data)
    \/ \E ref \in DOMAIN pushes : \E k \in DOMAIN pushes[ref].sends : PushTimeout(ref, k)

SpecHook == InitDefault /\ [][NextHook]_vars

\* The Socket and its transports alone: no Channel is created.
NextReconnect ==
    \/ AppConnect
    \/ ReconnectTimerFire
    \/ \E i \in DOMAIN ws : TransportOpen(i)
    \/ \E i \in DOMAIN ws : TransportError(i)
    \/ \E i \in DOMAIN ws, wasClean \in BOOLEAN : TransportClose(i, wasClean)
    \/ Disconnect
    \/ Teardown

SpecReconnect == Init /\ [][NextReconnect]_vars

\* The reconnect timer in the application's hands: beside the tasks of
\* NextReconnect, the application calls start() and reset() on
\* socket.reconnectTimer and dispatches open and close events itself.
NextTimer ==
    \/ AppConnect
    \/ ReconnectTimerFire
    \/ \E i \in DOMAIN ws : TransportOpen(i)
    \/ \E i \in DOMAIN ws : TransportError(i)
    \/ \E i \in DOMAIN ws, wasClean \in BOOLEAN : TransportClose(i, wasClean)
    \/ Disconnect
    \/ Teardown
    \/ TimerStartCall
    \/ TimerResetCall
    \/ \E type \in {"open", "close"} : \E arg \in SocketDispatchArgs(type) :
           SocketDispatchCall(type, arg)

SpecTimer == Init /\ [][NextTimer]_vars

\* The Channels in the application's hands: with or without a transport the
\* application creates Channels, joins, registers listeners and calls
\* trigger() and dispatch() on the Channels itself.
NextTrigger ==
    \/ FirstConnect
    \/ \E i \in DOMAIN ws : TransportOpen(i)
    \/ FirstChannel
    \/ \E c \in DOMAIN chan : IssuedNoPush /\ ChannelJoin(c)
    \/ \E c \in DOMAIN chan, event \in ListenEvents, fn \in Listeners \cup ThrowingListeners :
           ChannelOnCall(c, event, fn)
    \/ \E c \in DOMAIN chan, frame \in LobbyFrames : ChannelDispatchCall(c, frame)
    \/ \E c \in DOMAIN chan, frame \in CodeAppFrames : ChannelDispatchCall(c, frame)
    \/ \E c \in DOMAIN chan, t \in AppTriggerCalls :
           ChannelTriggerCall(c, t.event, t.data, t.ref)
    \/ \E c \in DOMAIN chan, t \in ReplyTriggerCalls :
           ChannelTriggerCall(c, t.event, t.data, t.ref)
    \/ \E ref \in DOMAIN pushes : \E k \in DOMAIN pushes[ref].sends : PushTimeout(ref, k)

SpecTrigger == InitDefault /\ [][NextTrigger]_vars

\* The listeners of the Channels: on a connection that stays open the
\* application creates Channels and registers and removes listeners, and the
\* server sends frames of application events.
NextListen ==
    \/ FirstConnect
    \/ \E i \in DOMAIN ws : TransportOpen(i)
    \/ \E topic \in Topics : CreateChannel(topic)
    \/ \E c \in DOMAIN chan, event \in ListenEvents, fn \in Listeners \cup ThrowingListeners :
           ChannelOnCall(c, event, fn)
    \/ \E c \in DOMAIN chan, event \in ListenEvents : ChannelOffCall(c, event)
    \/ \E c \in DOMAIN chan, event \in ListenEvents, fn \in Listeners \cup ThrowingListeners :
           ChannelOffFnCall(c, event, fn)
    \/ \E frame \in AppFrames : TransportMessage(frame)

SpecListen == InitDefault /\ [][NextListen]_vars

\* The frames of the event msg a server sends on the topic of LobbyChannel,
\* with the payload under the key data.
LobbyAppFrames == {f \in CodeAppFrames : f.topic = "room:lobby" /\ f.event = "msg"}

\* The subscribers of the Socket: the application calls on() and off(), with
\* functions that return and one that throws, and dispatch(), while the first
\* transport of the Socket opens, receives frames, fails and closes.
NextSubscribe ==
    \/ FirstConnect
    \/ \E i \in DOMAIN ws : TransportOpen(i)
    \/ \E i \in DOMAIN ws : TransportError(i)
    \/ ErrorClose
    \/ \E frame \in LobbyAppFrames : TransportMessage(frame)
    \/ \E event \in SocketEventNames, fn \in Listeners \cup ThrowingListeners :
           SocketOnCall(event, fn)
    \/ \E event \in SocketEventNames, fn \in Listeners \cup ThrowingListeners :
           SocketOffCall(event, fn)
    \/ \E type \in SocketEventNames \ {"message"} : \E arg \in SocketDispatchArgs(type) :
           SocketDispatchCall(type, arg)
    \/ \E frame \in LobbyAppFrames : SocketDispatchCall("message", frame)

SpecSubscribe == InitDefault /\ [][NextSubscribe]_vars

\* The reconnect loop: the application calls connect() once, and every later
\* connect() is the reconnect timer's.  A timeout that is armed expires
\* after its delay unless it is cleared, and the close event of a transport
\* follows its error event: weak fairness of the expiry and of that close.
NextLoop ==
    \/ FirstConnect
    \/ ReconnectTimerFire
    \/ \E i \in DOMAIN ws : TransportOpen(i)
    \/ \E i \in DOMAIN ws : TransportError(i)
    \/ \E i \in DOMAIN ws, wasClean \in BOOLEAN : TransportClose(i, wasClean)
    \/ Disconnect
    \/ Teardown

SpecLoop ==
    /\ Init
    /\ [][NextLoop]_vars
    /\ WF_vars(ReconnectTimerFire)
    /\ WF_vars(ErrorClose)

\* One Push and its timeouts: the application joins, or gets a Push from
\* createPush and calls send() on it, once or again, while the server
\* replies and the first transport opens, fails and closes.  A timeout that
\* is armed expires after its delay unless it is cleared (weak fairness of
\* the expiry of each call of send()), and the close event of a transport
\* follows its error event.
NextSettle ==
    \/ FirstConnect
    \/ \E i \in DOMAIN ws : TransportOpen(i)
    \/ \E i \in DOMAIN ws : TransportError(i)
    \/ \E i \in DOMAIN ws, wasClean \in BOOLEAN : TransportClose(i, wasClean)
    \/ Disconnect
    \/ Teardown
    \/ FirstChannel
    \/ \E c \in DOMAIN chan : IssuedNoPush /\ ChannelJoin(c)
    \/ \E c \in DOMAIN chan, event \in AppEvents, data \in Payloads :
           IssuedNoPush /\ CreatePush(c, event, data)
    \/ \E ref \in DOMAIN pushes : PushSendCall(ref)
    \/ \E ref \in DOMAIN pushes : \E k \in DOMAIN pushes[ref].sends : PushTimeout(ref, k)
    \/ \E frame \in LobbyFrames : TransportMessage(frame)

SpecSettle ==
    /\ InitDefault
    /\ [][NextSettle]_vars
    /\ \A r \in Refs : \A k \in 1..MaxSends :
           WF_vars(r \in DOMAIN pushes /\ k \in DOMAIN pushes[r].sends /\ PushTimeout(r, k))
    /\ WF_vars(ErrorClose)

\* The transports of the Socket that are connecting or open.
LiveTransports == {i \in DOMAIN ws : ws[i].readyState \in {"connecting", "open"}}

\* The application calls connect() when no transport is connecting or open.
GuardedConnect == LiveTransports = {} /\ AppConnect

\* The Socket and its transports, with an application that calls connect()
\* only when no transport is connecting or open.
NextGuarded ==
    \/ GuardedConnect
    \/ ReconnectTimerFire
    \/ \E i \in DOMAIN ws : TransportOpen(i)
    \/ \E i \in DOMAIN ws : TransportError(i)
    \/ \E i \in DOMAIN ws, wasClean \in BOOLEAN : TransportClose(i, wasClean)
    \/ Disconnect
    \/ Teardown

SpecGuarded == Init /\ [][NextGuarded]_vars

\* The reconnect loop of a Socket constructed with any of BackoffChoices.
InitBackoff ==
    /\ intervals \in BackoffChoices
    /\ Constructed

SpecBackoff == InitBackoff /\ [][NextLoop]_vars

\* A Socket constructed with any of ZeroFirstChoices, with an application
\* that calls connect() only when no transport is connecting or open.
InitAbnormal ==
    /\ intervals \in ZeroFirstChoices
    /\ Constructed

SpecAbnormal == InitAbnormal /\ [][NextGuarded]_vars

\* ------------------------------------------------------------------ claims

\* C1: the values nextRef() returns over the life of a Socket are strictly
\* increasing, whatever joins, sends, closes, reconnects and disconnects
\* happen in between, and no two frames that Pushes of the Socket emitted
\* carry the same ref.
C1_RefsStrictlyIncreasing ==
    /\ \A i, j \in DOMAIN refsIssued : i < j => refsIssued[i] < refsIssued[j]
    /\ \A i, j \in DOMAIN wire :
           (i < j /\ handed[wire[i].call].push # 0 /\ handed[wire[j].call].push # 0)
           => wire[i].frame.ref # wire[j].frame.ref

\* The topic of the Channel a Push was issued on.
PushTopic(r) == chan[pushes[r].channel].topic

\* Some Channel's listener map holds an entry for the reply event of ref r.
HasReplyListener(r) ==
    \E c \in DOMAIN chan : makeReplyEventName(r) \in DOMAIN chan[c].subscribers

\* The calls of send() made on the Push with ref r, and the k-th of them.
SendsOf(r) == DOMAIN pushes[r].sends
SendOf(r, k) == pushes[r].sends[k]

\* C2: a Push issued through join() or send() on an open connection resolves
\* with P when the frame {topic, event: REPLY, payload: {status: "ok",
\* response: P}, ref} with its topic and its ref arrives before its timeout
\* fires.
C2_SpecReplyResolves ==
    \A r \in DOMAIN pushes : \A k \in SendsOf(r) : \A f \in SpecFrames :
        ( /\ CanReceive
          /\ ~pushes[r].held
          /\ SendOf(r, k).sent = "sent"
          /\ SendOf(r, k).promise = "pending"
          /\ SendOf(r, k).timer
          /\ f.ref = r
          /\ f.topic = PushTopic(r)
          /\ f.payload.status = "ok" )
        => LET st == Deliver(f)
           IN  /\ st.pushes[r].sends[k].promise = "resolved"
               /\ st.pushes[r].sends[k].value = f.payload.response

\* C3: a call of send() that found the transport not open (null, connecting,
\* closing or closed) is rejected at once and has no timeout timer armed, so
\* no timeout expires for it.
C3_NotOpenRejectsWithoutTimer ==
    \A r \in DOMAIN pushes : \A k \in SendsOf(r) :
        SendOf(r, k).sent # "sent"
        => /\ SendOf(r, k).promise = "rejected"
           /\ SendOf(r, k).outcome = "send_failed"
           /\ ~SendOf(r, k).timer
           /\ ~SendOf(r, k).expired

\* A Push settled by one of its three outcomes: an ok reply, an error reply
\* or the expiry of its timeout.
SettledByOutcome(r) ==
    \E k \in SendsOf(r) : SendOf(r, k).outcome \in {"ok", "error", "timer"}

\* C4: once a Push has settled by an ok reply, an error reply or its timeout,
\* no timeout of it can fire, no frame the server may send invokes its reply
\* listener or changes it, and exactly one of its three subscribers has run,
\* once.
C4_SettledPushIsInert ==
    \A r \in DOMAIN pushes :
        SettledByOutcome(r)
        => /\ \A k \in SendsOf(r) :
                  /\ ~ENABLED PushTimeout(r, k)
                  /\ SendOf(r, k).runs.ok + SendOf(r, k).runs.error
                         + SendOf(r, k).runs.timeout = 1
           /\ \A f \in InboundFrames :
                  LET st == Deliver(f)
                  IN  /\ r \notin st.notified
                      /\ st.pushes[r] = pushes[r]

\* C5: whenever the timeout of a call of send() expired and no reply had
\* settled it, its promise is rejected with the timeout error and no Channel
\* holds a listener for the reply event of the Push.
C5_TimeoutRejectsWithTimeoutError ==
    \A r \in DOMAIN pushes : \A k \in SendsOf(r) :
        (SendOf(r, k).expired /\ SendOf(r, k).outcome # "reply_timeout")
        => /\ SendOf(r, k).promise = "rejected"
           /\ SendOf(r, k).value = TimedOutMessage(r)
           /\ ~HasReplyListener(r)

\* C6: a Channel's listener map holds an entry for channel_reply_<ref> only
\* while a promise of the Push with that ref is pending.
C6_ReplyListenerOnlyWhilePending ==
    \A r \in DOMAIN pushes :
        HasReplyListener(r) => \E k \in SendsOf(r) : SendOf(r, k).promise = "pending"

\* C7: a REPLY frame with ref r invokes the reply listener of the Push with
\* ref r (when that Push still listens on a Channel of the frame's topic) and
\* of no other Push; every other Push keeps its state, its armed timer and
\* its reply listener.
C7_ReplyNotifiesOnlyItsPush ==
    \A f \in InboundFrames :
        LET st == Deliver(f)
            r == f.ref
        IN  /\ st.notified \subseteq {r}
            /\ (r \in DOMAIN pushes /\ HasReplyListener(r) /\ PushTopic(r) = f.topic)
               => r \in st.notified
            /\ \A q \in DOMAIN pushes \ {r} :
                   /\ st.pushes[q] = pushes[q]
                   /\ \A c \in DOMAIN chan :
                          makeReplyEventName(q) \in DOMAIN chan[c].subscribers
                          <=> makeReplyEventName(q) \in DOMAIN st.chan[c].subscribers

\* Two Pushes on two Channels of one topic, both sent: one resolved by its ok
\* reply, the other still pending with its timer armed and its listener.
C7_Witness ==
    \E r, q \in DOMAIN pushes : \E k \in SendsOf(r), m \in SendsOf(q) :
        /\ r # q
        /\ pushes[r].channel # pushes[q].channel
        /\ PushTopic(r) = PushTopic(q)
        /\ SendOf(r, k).outcome = "ok"
        /\ SendOf(q, m).sent = "sent"
        /\ SendOf(q, m).promise = "pending"
        /\ SendOf(q, m).timer
        /\ HasReplyListener(q)

\* The reply frames of the wire format {topic, event, payload, ref} whose
\* status is "error".
SpecErrorFrames == {f \in SpecFrames : f.payload.status = "error"}

\* C8: the frame {topic, event: REPLY, payload: {status: "error", response: P},
\* ref} on an open connection, for a pending Push r whose frame was sent, on
\* its topic, rejects r with P and changes nothing else: every other Push
\* keeps its state and its reply listener and the reconnect timer is
\* unchanged (the message task writes neither the channel registry nor the
\* transports).
C8_ErrorReplyRejectsOnlyItsPush ==
    \A f \in SpecErrorFrames :
        ( /\ CanReceive
          /\ f.ref \in DOMAIN pushes
          /\ PushTopic(f.ref) = f.topic )
        => LET st == Deliver(f)
           IN  /\ \A k \in SendsOf(f.ref) :
                      ( /\ SendOf(f.ref, k).sent = "sent"
                        /\ SendOf(f.ref, k).promise = "pending" )
                      => /\ st.pushes[f.ref].sends[k].promise = "rejected"
                         /\ st.pushes[f.ref].sends[k].value = f.payload.response
               /\ \A q \in DOMAIN pushes \ {f.ref} :
                      /\ st.pushes[q] = pushes[q]
                      /\ \A c \in DOMAIN chan :
                             makeReplyEventName(q) \in DOMAIN chan[c].subscribers
                             => makeReplyEventName(q) \in DOMAIN st.chan[c].subscribers
               /\ DOMAIN st.pushes = DOMAIN pushes
               /\ st.timer = reconnectTimer

\* C9: once the application has called disconnect(), and until it calls
\* connect() again, connect() is not invoked: no WebSocket is created.
C9_NoReconnectAfterDisconnect ==
    [][ (disconnectRequested /\ disconnectRequested') => Len(ws') = Len(ws) ]_vars

\* C10: when an open transport closes abnormally (its close event reports
\* wasClean false, with or without an error event before it), the reconnect
\* timer is pending afterwards with the first configured interval as its
\* delay (ReconnectTimerFire, its expiry, invokes connect()), whatever the
\* configured intervals and the reconnect cycles before it.
C10_AbnormalCloseSchedulesFirstInterval ==
    [][ \A i \in DOMAIN ws :
          ( /\ ws[i].readyState = "open" \/ (errored = i /\ ws[i].opened)
            /\ TransportClose(i, FALSE) )
          => {h.delay : h \in reconnectTimer'.timeouts} = {intervals[1]}
      ]_vars

\* C11: every transport close that was not requested through disconnect(),
\* a close the transport reports as clean included, leaves the reconnect
\* timer armed.
C11_UnrequestedCloseReconnects ==
    [][ \A i \in DOMAIN ws, wasClean \in BOOLEAN :
          (~disconnectRequested /\ TransportClose(i, wasClean))
          => reconnectTimer'.timeouts # {}
      ]_vars

\* C12: when the first connect() attempt fails before it opened (the error
\* event, then the close event), the promise of connect() is rejected and
\* the reconnect timer has nothing armed.
C12_FailedFirstConnectDoesNotRetry ==
    [][ (errored = 1 /\ ~ws[1].opened /\ TransportClose(1, FALSE))
        => /\ ws'[1].promise = "rejected"
           /\ reconnectTimer'.timeouts = {}
      ]_vars

\* The delays of the timeouts a Timer has armed.
Delays(t) == {h.delay : h \in t.timeouts}

\* C13: the reconnect timer has at most one timeout armed in every state; a
\* start() while one is armed (by the close subscriber or by the application)
\* leaves one armed, with the delay the first start() chose; the expiry
\* invokes connect() once and leaves none armed; reset() (by the open or
\* close subscriber or by the application) leaves none armed and retry 0.
C13_OnePendingInvocation ==
    /\ [](Cardinality(reconnectTimer.timeouts) <= 1)
    /\ [][ ( /\ reconnectTimer.timeouts # {}
             /\ \/ \E i \in DOMAIN ws : TransportClose(i, FALSE)
                \/ TimerStartCall
                \/ SocketDispatchCall("close", EventClose(FALSE)) )
           => /\ Cardinality(reconnectTimer'.timeouts) = 1
              /\ Delays(reconnectTimer') = Delays(reconnectTimer)
              /\ reconnectTimer'.retry = reconnectTimer.retry
         ]_vars
    /\ [][ ReconnectTimerFire
           => /\ Len(ws') = Len(ws) + 1
              /\ reconnectTimer'.timeouts = {}
         ]_vars
    /\ [][ ( \/ \E i \in DOMAIN ws : TransportOpen(i) \/ TransportClose(i, TRUE)
             \/ TimerResetCall
             \/ SocketDispatchCall("open", EventOpen)
             \/ SocketDispatchCall("close", EventClose(TRUE)) )
           => /\ reconnectTimer'.timeouts = {}
              /\ reconnectTimer'.retry = 0
         ]_vars

\* Three transports that failed before they opened, with no expiry of the
\* timer in between (retry is 0): three start() calls in a row, and one
\* timeout armed with the first interval, 10.
C13_Witness ==
    /\ intervals = DEFAULT_INTERVALS
    /\ Len(ws) = 3
    /\ \A i \in DOMAIN ws : ws[i].readyState = "closed" /\ ~ws[i].opened
    /\ reconnectTimer.retry = 0
    /\ Cardinality(reconnectTimer.timeouts) = 1
    /\ Delays(reconnectTimer) = {10}

\* The smaller of two numbers.
Min(a, b) == IF a < b THEN a ELSE b

\* C14: the delay of the armed timeout is intervals[min(retry, len - 1)]
\* (indices from 0): past the end of the sequence it stays at the last
\* configured interval.
C14_DelayIsClampedInterval ==
    \A h \in reconnectTimer.timeouts :
        h.delay = intervals[Min(reconnectTimer.retry, Len(intervals) - 1) + 1]

\* The functions of a list of application listeners, or of calls, in order.
FnsOf(list) == [i \in 1..Len(list) |-> list[i].fn]

\* C15: a frame of event E triggered on a Channel calls every listener the
\* Channel holds for E, in registration order, also when one of them throws.
C15_TriggerRunsEveryListener ==
    \A c \in DOMAIN chan : \A f \in CodeAppFrames :
        FnsOf(ChannelTrigger(TaskStart, c, f.event, f.data, f.ref).calls)
            = FnsOf(Subscribers(chan[c].subscribers, f.event))

\* The calls a frame of the event is to make on the Channels chs: channel by
\* channel in the order given, and listener by listener in each.
RECURSIVE ExpectedCalls(_, _)
ExpectedCalls(chs, event) ==
    IF chs = <<>>
    THEN <<>>
    ELSE LET fns == Subscribers(chan[Head(chs)].subscribers, event)
         IN  [i \in 1..Len(fns) |-> [channel |-> Head(chs), fn |-> fns[i].fn]]
             \o ExpectedCalls(Tail(chs), event)

\* C16: a frame {topic: T, event: E, payload: P, ref: R} calls the listeners
\* of E on every Channel registered under T and on no other Channel, by
\* channel and then by listener in registration order, each with (P, R).
C16_FrameReachesEveryListener ==
    \A f \in SpecAppFrames :
        LET made == Deliver(f).calls
            due == ExpectedCalls(IF f.topic \in DOMAIN channels
                                 THEN channels[f.topic] ELSE <<>>, f.event)
        IN  CanReceive
            => /\ Len(made) = Len(due)
               /\ \A i \in DOMAIN made :
                      /\ made[i].channel = due[i].channel
                      /\ made[i].fn = due[i].fn
                      /\ Len(made[i].args) = 2
                      /\ made[i].args[1] = f.payload
                      /\ made[i].args[2] = f.ref

\* The listeners of every event but one, on one Channel, are the same after
\* a step, and so is every other Channel.
OtherListenersKept(c, event) ==
    /\ \A e \in DOMAIN chan[c].subscribers \ {event} :
           /\ e \in DOMAIN chan'[c].subscribers
           /\ chan'[c].subscribers[e] = chan[c].subscribers[e]
    /\ \A d \in DOMAIN chan \ {c} : chan'[d] = chan[d]
    /\ DOMAIN chan' = DOMAIN chan

\* A list of application listeners without the function fn.
Without(list, fn) ==
    LET Other(l) == l.fn # fn
    IN  SelectSeq(list, Other)

\* C17: after channel.off(event), no frame of that event calls a listener of
\* the Channel, and the listeners of its other events and of other Channels
\* are as before; channel.off(event, fn) on an event that has listeners
\* leaves the event's other listeners, in their order, and everything else
\* as before.
C17_OffRemovesListeners ==
    [][ \A c \in DOMAIN chan : \A event \in ListenEvents :
          /\ (lastCall'.op = "Channel.off" /\ ChannelOffCall(c, event))
             => /\ \A f \in AppFrames :
                       f.event = event
                       => ChannelDispatch([TaskStart EXCEPT !.chan = chan'], c, f).calls = <<>>
                /\ OtherListenersKept(c, event)
          /\ \A fn \in Listeners \cup ThrowingListeners :
                 ( /\ lastCall'.op = "Channel.off(fn)"
                   /\ event \in DOMAIN chan[c].subscribers
                   /\ ChannelOffFnCall(c, event, fn) )
                 => /\ Subscribers(chan'[c].subscribers, event)
                        = Without(chan[c].subscribers[event], fn)
                    /\ lastCall'.error = "none"
                    /\ OtherListenersKept(c, event)
      ]_vars

\* channel.off(event) has just removed two listeners of one event from a
\* Channel that still holds a listener of another event.
C17_Witness ==
    /\ lastCall.op = "Channel.off"
    /\ lastCall.removed = 2
    /\ \E c \in DOMAIN chan :
           /\ Subscribers(chan[c].subscribers, "msg") = <<>>
           /\ Len(Subscribers(chan[c].subscribers, "typing")) = 1

\* C18: at most one heartbeat interval timer is armed, and one is armed
\* exactly while the current transport is open: armed at each open, and
\* cancelled at the close.
C18_HeartbeatFollowsOpenTransport ==
    /\ Cardinality(HeartbeatTimers) <= 1
    /\ (HeartbeatTimers # {}) <=> (socket # 0 /\ ws[socket].readyState = "open")

\* C19: Socket.on or Socket.off with an event name outside {open, message,
\* error, close} throws, leaves every subscriber list and everything else of
\* the Socket as it was, and a later on() with a declared name registers its
\* function.
C19_UndeclaredEventFailsOnlyThatCall ==
    [][ \A event \in SocketEventNames \ SocketEvents :
        \A fn \in Listeners \cup ThrowingListeners :
          ( /\ lastCall'.op \in {"Socket.on", "Socket.off"}
            /\ SocketOnCall(event, fn) \/ SocketOffCall(event, fn) )
          => /\ lastCall'.error \in {"Error", "TypeError"}
             /\ subscribers' = subscribers
             /\ UNCHANGED <<intervals, ws, socket, closeWasClean, reconnectTimer,
                            refCounter, channels, chan, pushes, wire>>
             /\ \A e \in SocketEvents :
                    /\ SocketOn(subscribers', e, fn).error = "none"
                    /\ SocketOn(subscribers', e, fn).subscribers[e]
                           = Append(subscribers[e], fn)
      ]_vars

\* Socket.off with an undeclared name has just thrown the Error of the
\* library, on a Socket that holds a subscriber of the application, has a
\* reconnect scheduled and a transport created.
C19_Witness ==
    /\ lastCall.op = "Socket.off"
    /\ lastCall.error = "Error"
    /\ Len(subscribers.close) = 2
    /\ reconnectTimer.timeouts # {}
    /\ socket # 0

\* C20: every reconnect attempt that fails leaves the reconnect timer
\* armed, every armed timer leads to a further connect() (while the number
\* of transports is below the bound of the model), and the transport that
\* connect() created is one the server can accept.
C20_ReconnectLoopNeverGivesUp ==
    /\ [][ \A i \in DOMAIN ws :
             (errored = i /\ ~ws[i].opened /\ TransportClose(i, FALSE))
             => reconnectTimer'.timeouts # {}
         ]_vars
    /\ \A n \in 0..(MaxSockets - 1) :
           (reconnectTimer.timeouts # {} /\ Len(ws) = n)
           ~> (Len(ws) > n /\ socket = Len(ws))
    /\ [](\A i \in DOMAIN ws :
             (i = socket /\ ws[i].readyState = "connecting") => ENABLED TransportOpen(i))

\* The first transport opened and closed abnormally, the reconnect that
\* followed failed before it opened, and the next one is open.
C20_Witness ==
    /\ Len(ws) = 3
    /\ ws[1].opened /\ ws[1].readyState = "closed"
    /\ ~ws[2].opened /\ ws[2].readyState = "closed"
    /\ ws[3].readyState = "open"
    /\ ~disconnectRequested

\* A sequence of intervals that never decreases.
NonDecreasing(ivs) == \A i, j \in DOMAIN ivs : i < j => ivs[i] <= ivs[j]

\* C21: when a reconnect attempt fails before it opened, the delay armed is
\* the configured interval of the retry count while the sequence lasts, and
\* is not shorter than the delay that led to the attempt when the configured
\* sequence never decreases; an open leaves the retry count 0.
C21_BackoffDelaysNonDecreasing ==
    [][ /\ \A i \in DOMAIN ws :
             ( /\ errored = i
               /\ ~ws[i].opened
               /\ reconnectTimer.retry >= 1
               /\ TransportClose(i, FALSE) )
             => /\ reconnectTimer.retry < Len(intervals)
                   => Delays(reconnectTimer') = {intervals[reconnectTimer.retry + 1]}
                /\ NonDecreasing(intervals)
                   => \A h \in reconnectTimer'.timeouts : h.delay >= reconnectTimer.fired
        /\ \A i \in DOMAIN ws : TransportOpen(i) => reconnectTimer'.retry = 0
      ]_vars

\* C22: an abnormal close leaves every Push as it was, with its promises,
\* its timeouts and its reply listener; a pending promise is resolved only
\* by a frame that an open transport delivers, and while no transport is
\* open nothing but a timeout of the Push rejects it.
C22_InFlightPushAbandoned ==
    /\ [][ \A i \in DOMAIN ws :
             (ws'[i].readyState = "closed" /\ (TransportError(i) \/ TransportClose(i, FALSE)))
             => (pushes' = pushes /\ chan' = chan)
         ]_vars
    /\ [][ \A r \in DOMAIN pushes : \A k \in SendsOf(r) :
             (SendOf(r, k).promise = "pending" /\ pushes'[r].sends[k].promise # "pending")
             => /\ pushes'[r].sends[k].promise = "resolved" => CanReceive
                /\ ~CanReceive => pushes'[r].sends[k].outcome = "timer"
         ]_vars

\* A Push that was sent, in flight after its transport closed abnormally:
\* pending, its timeout armed, its reply listener registered, and the
\* reconnect scheduled.
C22_Witness ==
    \E r \in DOMAIN pushes : \E k \in SendsOf(r) :
        /\ SendOf(r, k).sent = "sent"
        /\ SendOf(r, k).promise = "pending"
        /\ SendOf(r, k).timer
        /\ HasReplyListener(r)
        /\ ws[1].readyState = "closed"
        /\ reconnectTimer.timeouts # {}

\* The positions on the wire of the frame that the n-th call of Socket.send
\* was given.
Transmissions(n) == {i \in DOMAIN wire : wire[i].call = n}

\* C23: the frame of a call of Socket.send, by a Push or by the application,
\* is on the wire once when the call found the transport open, on the
\* transport that was current then, and never otherwise, whatever reconnects
\* and opens followed.
C23_UnsentFramesStayUnsent ==
    \A n \in DOMAIN handed :
        IF handed[n].result = "sent"
        THEN /\ Cardinality(Transmissions(n)) = 1
             /\ \A i \in Transmissions(n) :
                    ws[wire[i].via].opened /\ wire[i].frame = handed[n].frame
        ELSE Transmissions(n) = {}

\* A call of Socket.send whose frame was dropped or refused, and a later call
\* whose frame went out on a later transport of the Socket, which is open now.
C23_Witness ==
    \E n, m \in DOMAIN handed :
        /\ n < m
        /\ handed[n].result # "sent"
        /\ handed[m].result = "sent"
        /\ \E i \in Transmissions(m) : wire[i].via >= 2 /\ wire[i].via = socket
        /\ ws[socket].readyState = "open"

\* C24: with an application that calls connect() only when no transport is
\* connecting or open, at most one transport of the Socket is connecting or
\* open in every state.
C24_AtMostOneLiveTransport == Cardinality(LiveTransports) <= 1

====
